---- MODULE Spec2Model ----
(***************************************************************************)
(* The five load balancers of golang-loadbalancer (round robin, weighted   *)
(* round robin, least connections, least response time, source IP hash).   *)
(* Each is its own Go program with the same shape: an HTTP handler runs    *)
(* serveProxy in one goroutine per request; serveProxy calls pickServer    *)
(* and then Serve on the chosen backend.  `strategy` says which of the     *)
(* five programs is running.  A step of a request is one access to shared  *)
(* memory, one mutex operation, one liveness probe or one forward.         *)
(***************************************************************************)
EXTENDS Integers, Sequences, FiniteSets, TLC

\* ------------------------------------------------------------------ bounds
NumClients == 2      \* request goroutines that may run at the same time
MaxPicks == 10       \* picks kept in the log
MaxSamples == 3      \* response times recorded by least response time
MaxDuration == 2     \* longest measured forward, in time units
MaxDebt == 2         \* how far racing decrements may take currentWeight below zero
NumRecords == 2      \* distinct values a caller stores in the record store
MaxChunks == 2       \* writes WriteFile may need to put a whole record into a file

\* ------------------------------------------------------- program constants
NumServers == 3
ServerWeights == <<5, 3, 1>>
MaxInt == 2147483647
MaxDur == 2147483647
StatusOK == 200
StatusBadGateway == 502
StatusServiceUnavailable == 503

Servers == 0 .. (NumServers - 1)
Nil == -1
Procs == 1 .. NumClients
Strategies ==
  {"RoundRobin", "WeightedRoundRobin", "LeastConnections", "LeastResponseTime",
   "SourceIPHash"}
Counting == {"LeastConnections", "LeastResponseTime"}
\* client addresses (req.RemoteAddr) and the first four bytes of their MD5 digest
ClientAddrs == {"10.0.0.3:5000", "192.168.1.10:40000", "10.0.0.1:5000"}
MD5Prefix ==
  [a \in ClientAddrs |->
     CASE a = "10.0.0.3:5000" -> <<120, 107, 192, 122>>
       [] a = "192.168.1.10:40000" -> <<234, 79, 142, 91>>
       [] a = "10.0.0.1:5000" -> <<239, 87, 91, 157>>]
IntWidths == {32, 64}

\* the record store (golang-db): collections, resource names and stored values
Collections == {"users", "posts"}
Resources == {"John Doe"}
Records == 1 .. NumRecords
Operations == {"Insert", "Read", "ReadAll", "Delete"}
\* outcomes of ReverseProxy.ServeHTTP: a response relayed, a transport error
\* answered with 502 by the proxy's error handler, or a panic (ErrAbortHandler)
Outcomes == {"ok", "fail", "panic"}

VARIABLES
  strategy,            \* which of the five programs runs
  serial,              \* TRUE: requests arrive one after another
  intBits,             \* width of Go's int in this build
  watching,            \* which histories this run records
  alive,               \* environment: would a probe of backend s succeed now
  roundRobinIndex,     \* loadBalancer.roundRobinIndex
  currentWeight,       \* loadBalancer.currentWeight
  currentServer,       \* loadBalancer.currentServer
  connections,         \* simpleServer.connections
  requests,            \* simpleServer.requests
  totalResponseTime,   \* simpleServer.totalResponseTime
  mutex,               \* simpleServer.mutex: 0 free, else the holding request
  pc,                  \* position of each request goroutine
  loc,                 \* its local variables
  obs,                 \* history of the current request (not read by the code)
  picks,               \* history: picks started and returned since liveness last changed
  lastFor,             \* history: backend last returned for each client address
  driverMutex,         \* Driver.mutex: 0 free, else the holding caller
  mutexes,             \* Driver.mutexes: collection name -> mutex (0: no entry)
  locked,              \* the sync.Mutex values created so far: 0 free, else the holder
  dir,                 \* the files under Driver.dir, by collection
  call                 \* the record-store call each caller is making

vars ==
  <<strategy, serial, intBits, watching, alive, roundRobinIndex, currentWeight, currentServer,
    connections, requests, totalResponseTime, mutex, pc, loc, obs, picks, lastFor,
    driverMutex, mutexes, locked, dir, call>>

config == <<strategy, serial, intBits, watching>>
driver == <<driverMutex, mutexes, locked, dir, call>>
balancer ==
  <<alive, roundRobinIndex, currentWeight, currentServer, connections, requests,
    totalResponseTime, mutex, loc, obs, picks, lastFor>>
rrState == <<roundRobinIndex>>
wrrState == <<currentWeight, currentServer>>
counters == <<connections, requests, totalResponseTime>>

\* ------------------------------------------------------------ pure helpers
Unprobed == -2
Dead == -1

Weight(s) == ServerWeights[s + 1]

RECURSIVE MaxOver(_, _)
MaxOver(i, max) ==
  IF i = NumServers THEN max
  ELSE MaxOver(i + 1, IF Weight(i) > max THEN Weight(i) ELSE max)

maxWeight == MaxOver(0, 0)

\* Go's % truncates toward zero
Rem(a, n) == IF a >= 0 THEN a % n ELSE -((-a) % n)

\* hashIP: big-endian uint32 of the first four digest bytes, kept as bytes
hashIP(ip) == MD5Prefix[ip]

\* int(h) % n for a uint32 h = <<b0,b1,b2,b3>>.  With a 64-bit int the value is
\* h itself; with a 32-bit int the conversion wraps h >= 2^31 to h - 2^32.
IntModN(h, n, bits) ==
  IF bits = 32 /\ h[1] >= 128
  THEN Rem((h[1] - 256) * 16777216 + h[2] * 65536 + h[3] * 256 + h[4], n)
  ELSE (((h[1] * 256 + h[2]) % n) * (65536 % n) + ((h[3] * 256 + h[4]) % n)) % n

\* a request is over when its handler has returned ("done") or when a panic
\* has unwound it and net/http has dropped the connection ("aborted")
Over == {"idle", "done", "aborted"}

InFlight == {p \in Procs : pc[p] \notin Over}

RECURSIVE SumOver(_, _)
SumOver(f, S) ==
  IF S = {} THEN 0
  ELSE LET s == CHOOSE x \in S : TRUE IN f[s] + SumOver(f, S \ {s})

InitLoc ==
  [startIndex |-> 0, idx |-> 0, reg |-> 0, sel |-> Nil, min |-> 0,
   target |-> Nil, ip |-> "", dur |-> 0, outcome |-> "", resp |-> 0]

\* the histories a run may record: the log of picks, what each pick observed of
\* every backend, the backends up during a whole pick, the last pick per address
Histories == {"picks", "view", "up", "last"}

InitObs ==
  [view |-> [s \in Servers |-> Unprobed],
   ops |-> [inc |-> 0, fwd |-> 0, rec |-> 0, dec |-> 0],
   stable |-> TRUE,
   upAll |-> {},
   prev |-> Nil]

\* --------------------------------------------- record store: files
\* a file is missing, or holds the first `len` of the MaxChunks parts of the
\* JSON text of record `val`
Missing == [val |-> 0, len |-> -1]
Empty == [val |-> 0, len |-> 0]
Whole(v) == [val |-> v, len |-> MaxChunks]

\* the names Insert uses in a collection directory: resource + ".json" and
\* resource + ".json" + ".tmp"
Extensions == {".json", ".json.tmp"}
FileNames == Resources \X Extensions
finalPath(r) == <<r, ".json">>
tempPath(r) == <<r, ".json.tmp">>

\* ioutil.ReadDir lists a directory sorted by file name
SortedNames == <<<<"John Doe", ".json">>, <<"John Doe", ".json.tmp">>>>

\* a collection directory that does not exist
NoDir == [made |-> FALSE, file |-> [n \in FileNames |-> Missing]]

InitCall ==
  [op |-> "", collection |-> "", resource |-> "", v |-> 0, m |-> 0,
   files |-> <<>>, records |-> <<>>, err |-> FALSE]

\* ------------------------------------------------------------------- Init
InitWith(strats, modes, hist) ==
  /\ strategy \in strats
  /\ serial \in modes
  /\ watching = hist
  /\ intBits \in (IF strategy = "SourceIPHash" THEN IntWidths ELSE {64})
  /\ alive \in (IF strategy = "RecordStore" THEN {[s \in Servers |-> FALSE]}
               ELSE [Servers -> BOOLEAN])
  /\ roundRobinIndex = 0
  /\ currentWeight = 0
  /\ currentServer = 0
  /\ connections = [s \in Servers |-> 0]
  /\ requests = [s \in Servers |-> 0]
  /\ totalResponseTime = [s \in Servers |-> 0]
  /\ mutex = [s \in Servers |-> 0]
  /\ pc = [p \in Procs |-> "idle"]
  /\ loc = [p \in Procs |-> InitLoc]
  /\ obs = [p \in Procs |-> InitObs]
  /\ picks = <<>>
  /\ lastFor = [a \in ClientAddrs |-> Nil]
  /\ driverMutex = 0
  /\ mutexes = [c \in Collections |-> 0]
  /\ locked = <<>>
  /\ dir = [c \in Collections |-> NoDir]
  /\ call = [p \in Procs |-> InitCall]

\* ------------------------------------------------------------ environment
\* A backend comes up or goes down.  Nothing in the program changes; the
\* histories note that liveness was not constant.
SetAlive(s, b) ==
  /\ alive[s] # b
  /\ alive' = [alive EXCEPT ![s] = b]
  /\ picks' = <<>>
  /\ obs' = [p \in Procs |->
               IF p \in InFlight
               THEN [obs[p] EXCEPT !.stable = @ /\ "picks" \notin watching,
                                   !.upAll = IF b THEN @ ELSE @ \ {s}]
               ELSE obs[p]]
  /\ UNCHANGED <<config, driver, rrState, wrrState, counters, mutex, pc, loc, lastFor>>

\* ------------------------------------------------------ request lifecycle
FirstLabel ==
  CASE strategy = "RoundRobin" -> "rr_start"
    [] strategy = "WeightedRoundRobin" -> "w_adv_load"
    [] strategy = "LeastConnections" -> "lc_probe"
    [] strategy = "LeastResponseTime" -> "lrt_probe"
    [] strategy = "SourceIPHash" -> "sih_hash"

\* the HTTP server hands a request to handleRedirect -> lb.serveProxy, in a new
\* goroutine; goroutines are interchangeable, the request takes the lowest free one
Start(p) ==
  /\ pc[p] \in Over
  /\ \A q \in Procs : q < p => q \in InFlight
  /\ serial => InFlight = {}
  /\ Len(picks) < MaxPicks
  /\ strategy = "LeastResponseTime" =>
       SumOver(requests, Servers) + Cardinality(InFlight) < MaxSamples
  /\ \E a \in (IF strategy = "SourceIPHash" THEN ClientAddrs ELSE {""}) :
       loc' = [loc EXCEPT ![p] =
                 [InitLoc EXCEPT !.ip = a,
                                 !.min = IF strategy = "LeastConnections" THEN MaxInt
                                         ELSE IF strategy = "LeastResponseTime" THEN MaxDur
                                         ELSE 0]]
  /\ pc' = [pc EXCEPT ![p] = FirstLabel]
  /\ obs' = [obs EXCEPT ![p] =
               [InitObs EXCEPT !.upAll = IF "up" \in watching
                                         THEN {s \in Servers : alive[s]} ELSE {},
                               !.prev = IF "last" \in watching /\ strategy = "SourceIPHash"
                                        THEN lastFor[loc'[p].ip] ELSE Nil]]
  /\ UNCHANGED <<config, driver, alive, rrState, wrrState, counters, mutex, picks, lastFor>>

\* what the return of pickServer adds to the histories
Logged(p, srv) ==
  IF "picks" \in watching /\ obs[p].stable
  THEN Append(picks, [start |-> loc[p].startIndex, srv |-> srv])
  ELSE picks

Remembered(p, srv) ==
  IF "last" \in watching /\ strategy = "SourceIPHash"
  THEN [lastFor EXCEPT ![loc[p].ip] = srv]
  ELSE lastFor

\* the pick returns srv (Nil for a nil Server) to serveProxy
Return(p, srv, l, o) ==
  /\ pc' = [pc EXCEPT ![p] = "picked"]
  /\ loc' = [loc EXCEPT ![p] = [InitLoc EXCEPT !.target = srv, !.ip = l.ip]]
  /\ obs' = [obs EXCEPT ![p] = o]
  /\ picks' = Logged(p, srv)
  /\ lastFor' = Remembered(p, srv)

\* the pick goes on at label lbl
Goto(p, lbl, l, o) ==
  /\ pc' = [pc EXCEPT ![p] = lbl]
  /\ loc' = [loc EXCEPT ![p] = l]
  /\ obs' = [obs EXCEPT ![p] = o]
  /\ UNCHANGED <<picks, lastFor>>

\* IsAlive: the probe of backend s answers what the backend is right now
IsAlive(s) == alive[s]

Seen(p, s, v) == IF "view" \in watching THEN [obs[p] EXCEPT !.view[s] = v] ELSE obs[p]

\* the request is over: only its answer and its operation counts are kept
Ended(p, status) ==
  /\ pc' = [pc EXCEPT ![p] = IF status = 0 THEN "aborted" ELSE "done"]
  /\ loc' = [loc EXCEPT ![p] = [InitLoc EXCEPT !.target = loc[p].target, !.resp = status]]

Cleared(o) == [InitObs EXCEPT !.ops = o.ops]

\* ------------------------------------------- round robin: pickServer
\* startIndex := lb.roundRobinIndex
RR_ReadStart(p) ==
  /\ pc[p] = "rr_start"
  /\ Goto(p, "rr_fetch", [loc[p] EXCEPT !.startIndex = roundRobinIndex], obs[p])
  /\ UNCHANGED <<config, driver, alive, rrState, wrrState, counters, mutex>>

\* server := lb.servers[lb.roundRobinIndex%len(lb.servers)]
RR_Fetch(p) ==
  /\ pc[p] = "rr_fetch"
  /\ Goto(p, "rr_load", [loc[p] EXCEPT !.idx = roundRobinIndex % NumServers], obs[p])
  /\ UNCHANGED <<config, driver, alive, rrState, wrrState, counters, mutex>>

\* lb.roundRobinIndex = (lb.roundRobinIndex + 1) % len(lb.servers): the read
RR_AdvanceLoad(p) ==
  /\ pc[p] = "rr_load"
  /\ Goto(p, "rr_store", [loc[p] EXCEPT !.reg = roundRobinIndex], obs[p])
  /\ UNCHANGED <<config, driver, alive, rrState, wrrState, counters, mutex>>

RR_AdvanceStore_Stuck(p) ==
  /\ pc[p] = "rr_store"
  /\ roundRobinIndex' = loc[p].reg % NumServers
  /\ Goto(p, "rr_probe", [loc[p] EXCEPT !.reg = 0], obs[p])
  /\ UNCHANGED <<config, driver, alive, wrrState, counters, mutex>>

\* ... and the write
RR_AdvanceStore(p) ==
  /\ pc[p] = "rr_store"
  /\ roundRobinIndex' = (loc[p].reg + 1) % NumServers
  /\ Goto(p, "rr_probe", [loc[p] EXCEPT !.reg = 0], obs[p])
  /\ UNCHANGED <<config, driver, alive, wrrState, counters, mutex>>

\* if server.IsAlive() { return server }
RR_Probe(p) ==
  /\ pc[p] = "rr_probe"
  /\ LET s == loc[p].idx IN
       IF IsAlive(s)
       THEN Return(p, s, loc[p], Seen(p, s, 0))
       ELSE Goto(p, "rr_check", loc[p], Seen(p, s, Dead))
  /\ UNCHANGED <<config, driver, alive, rrState, wrrState, counters, mutex>>

RR_CheckWrapped_GiveUp(p) ==
  /\ pc[p] = "rr_check"
  /\ Return(p, Nil, loc[p], obs[p])
  /\ UNCHANGED <<config, driver, alive, rrState, wrrState, counters, mutex>>

\* if lb.roundRobinIndex == startIndex { return nil }
RR_CheckWrapped(p) ==
  /\ pc[p] = "rr_check"
  /\ IF roundRobinIndex = loc[p].startIndex
     THEN Return(p, Nil, loc[p], obs[p])
     ELSE Goto(p, "rr_fetch", loc[p], obs[p])
  /\ UNCHANGED <<config, driver, alive, rrState, wrrState, counters, mutex>>

RR_pickServer(p) ==
  \/ RR_ReadStart(p)
  \/ RR_Fetch(p)
  \/ RR_AdvanceLoad(p)
  \/ RR_AdvanceStore(p)
  \/ RR_Probe(p)
  \/ RR_CheckWrapped(p)

\* ---------------------------------- weighted round robin: pickServer
\* lb.currentServer = (lb.currentServer + 1) % len(lb.servers): the read
W_AdvanceLoad(p) ==
  /\ pc[p] = "w_adv_load"
  /\ Goto(p, "w_adv_store", [loc[p] EXCEPT !.reg = currentServer], obs[p])
  /\ UNCHANGED <<config, driver, alive, rrState, wrrState, counters, mutex>>

W_AdvanceStore_Unwrapped(p) ==
  /\ pc[p] = "w_adv_store"
  /\ currentServer' = loc[p].reg + 1
  /\ Goto(p, "w_wrapped", [loc[p] EXCEPT !.reg = 0], obs[p])
  /\ UNCHANGED <<config, driver, alive, rrState, currentWeight, counters, mutex>>

\* ... and the write
W_AdvanceStore(p) ==
  /\ pc[p] = "w_adv_store"
  /\ currentServer' = (loc[p].reg + 1) % NumServers
  /\ Goto(p, "w_wrapped", [loc[p] EXCEPT !.reg = 0], obs[p])
  /\ UNCHANGED <<config, driver, alive, rrState, currentWeight, counters, mutex>>

\* if lb.currentServer == 0
W_Wrapped(p) ==
  /\ pc[p] = "w_wrapped"
  /\ Goto(p, IF currentServer = 0 THEN "w_dec_load" ELSE "w_cmp", loc[p], obs[p])
  /\ UNCHANGED <<config, driver, alive, rrState, wrrState, counters, mutex>>

\* lb.currentWeight = lb.currentWeight - 1: the read
W_DecrementLoad(p) ==
  /\ pc[p] = "w_dec_load"
  /\ Goto(p, "w_dec_store", [loc[p] EXCEPT !.reg = currentWeight], obs[p])
  /\ UNCHANGED <<config, driver, alive, rrState, wrrState, counters, mutex>>

\* ... and the write.  Racing picks that never find a backend can push the
\* weight down without end; the model follows them to -MaxDebt.
W_DecrementStore(p) ==
  /\ pc[p] = "w_dec_store"
  /\ loc[p].reg - 1 >= -MaxDebt
  /\ currentWeight' = loc[p].reg - 1
  /\ Goto(p, "w_nonpos", [loc[p] EXCEPT !.reg = 0], obs[p])
  /\ UNCHANGED <<config, driver, alive, rrState, currentServer, counters, mutex>>

\* if lb.currentWeight <= 0
W_NonPositive(p) ==
  /\ pc[p] = "w_nonpos"
  /\ Goto(p, IF currentWeight <= 0 THEN "w_reset" ELSE "w_cmp", loc[p], obs[p])
  /\ UNCHANGED <<config, driver, alive, rrState, wrrState, counters, mutex>>

\* lb.currentWeight = maxWeight(lb.servers)
W_Reset(p) ==
  /\ pc[p] = "w_reset"
  /\ currentWeight' = maxWeight
  /\ Goto(p, "w_zero", loc[p], obs[p])
  /\ UNCHANGED <<config, driver, alive, rrState, currentServer, counters, mutex>>

\* if lb.currentWeight == 0 { return nil }
W_Zero(p) ==
  /\ pc[p] = "w_zero"
  /\ IF currentWeight = 0
     THEN Return(p, Nil, loc[p], obs[p])
     ELSE Goto(p, "w_cmp", loc[p], obs[p])
  /\ UNCHANGED <<config, driver, alive, rrState, wrrState, counters, mutex>>

\* lb.weightCounters[lb.currentServer] >= lb.currentWeight: the index is read
W_CompareIndex(p) ==
  /\ pc[p] = "w_cmp"
  /\ Goto(p, "w_cmp_weight", [loc[p] EXCEPT !.idx = currentServer], obs[p])
  /\ UNCHANGED <<config, driver, alive, rrState, wrrState, counters, mutex>>

W_CompareWeight_Ignored(p) ==
  /\ pc[p] = "w_cmp_weight"
  /\ Goto(p, "w_probe_load", [loc[p] EXCEPT !.idx = 0], obs[p])
  /\ UNCHANGED <<config, driver, alive, rrState, wrrState, counters, mutex>>

\* ... and compared with lb.currentWeight (weightCounters[i] is servers[i].Weight())
W_CompareWeight(p) ==
  /\ pc[p] = "w_cmp_weight"
  /\ Goto(p, IF Weight(loc[p].idx) >= currentWeight THEN "w_probe_load" ELSE "w_adv_load",
          [loc[p] EXCEPT !.idx = 0], obs[p])
  /\ UNCHANGED <<config, driver, alive, rrState, wrrState, counters, mutex>>

\* && lb.servers[lb.currentServer].IsAlive(): the index is read again
W_ProbeIndex(p) ==
  /\ pc[p] = "w_probe_load"
  /\ Goto(p, "w_probe", [loc[p] EXCEPT !.idx = currentServer], obs[p])
  /\ UNCHANGED <<config, driver, alive, rrState, wrrState, counters, mutex>>

\* ... and that backend is probed
W_Probe(p) ==
  /\ pc[p] = "w_probe"
  /\ LET s == loc[p].idx IN
       IF IsAlive(s)
       THEN Goto(p, "w_ret", [loc[p] EXCEPT !.idx = 0], Seen(p, s, 0))
       ELSE Goto(p, "w_adv_load", [loc[p] EXCEPT !.idx = 0], Seen(p, s, Dead))
  /\ UNCHANGED <<config, driver, alive, rrState, wrrState, counters, mutex>>

\* return lb.servers[lb.currentServer]: the index is read a third time
W_Return(p) ==
  /\ pc[p] = "w_ret"
  /\ Return(p, currentServer, loc[p], obs[p])
  /\ UNCHANGED <<config, driver, alive, rrState, wrrState, counters, mutex>>

WRR_pickServer(p) ==
  \/ W_AdvanceLoad(p)
  \/ W_AdvanceStore(p)
  \/ W_Wrapped(p)
  \/ W_DecrementLoad(p)
  \/ W_DecrementStore(p)
  \/ W_NonPositive(p)
  \/ W_Reset(p)
  \/ W_Zero(p)
  \/ W_CompareIndex(p)
  \/ W_CompareWeight(p)
  \/ W_ProbeIndex(p)
  \/ W_Probe(p)
  \/ W_Return(p)

\* ------------------------------------- least connections: pickServer
\* the scan goes on with the next backend, or returns selectedServer after the last
LoopNext(p, l, o) ==
  IF l.idx + 1 = NumServers
  THEN Return(p, l.sel, l, o)
  ELSE Goto(p, IF strategy = "LeastConnections" THEN "lc_probe" ELSE "lrt_probe",
            [l EXCEPT !.idx = @ + 1], o)

\* for _, server := range lb.servers { if server.IsAlive() {
LC_Probe(p) ==
  /\ pc[p] = "lc_probe"
  /\ IF IsAlive(loc[p].idx)
     THEN Goto(p, "lc_lock", loc[p], obs[p])
     ELSE LoopNext(p, loc[p], Seen(p, loc[p].idx, Dead))
  /\ UNCHANGED <<config, driver, alive, rrState, wrrState, counters, mutex>>

\* server.Connections(): s.mutex.Lock()
LC_Lock(p) ==
  /\ pc[p] = "lc_lock"
  /\ mutex[loc[p].idx] = 0
  /\ mutex' = [mutex EXCEPT ![loc[p].idx] = p]
  /\ Goto(p, "lc_read", loc[p], obs[p])
  /\ UNCHANGED <<config, driver, alive, rrState, wrrState, counters>>

Better_Larger(l, s, v) == IF v > l.min THEN [l EXCEPT !.min = v, !.sel = s] ELSE l

\* the smaller of two candidates: a later one wins only if strictly smaller
Better(l, s, v) == IF v < l.min THEN [l EXCEPT !.min = v, !.sel = s] ELSE l

LC_Read_LaterWins(p) ==
  /\ pc[p] = "lc_read"
  /\ mutex[loc[p].idx] = p
  /\ mutex' = [mutex EXCEPT ![loc[p].idx] = 0]
  /\ LET s == loc[p].idx
         v == connections[s]
     IN LoopNext(p, IF v <= loc[p].min THEN [loc[p] EXCEPT !.min = v, !.sel = s] ELSE loc[p],
                 Seen(p, s, v))
  /\ UNCHANGED <<config, driver, alive, rrState, wrrState, counters>>

\* return s.connections, s.mutex.Unlock(); if connections < minConnections {...}
LC_Read(p) ==
  /\ pc[p] = "lc_read"
  /\ mutex[loc[p].idx] = p
  /\ mutex' = [mutex EXCEPT ![loc[p].idx] = 0]
  /\ LET s == loc[p].idx
         v == connections[s]
     IN LoopNext(p, Better(loc[p], s, v), Seen(p, s, v))
  /\ UNCHANGED <<config, driver, alive, rrState, wrrState, counters>>

LC_pickServer(p) == LC_Probe(p) \/ LC_Lock(p) \/ LC_Read(p)

\* ----------------------------------- least response time: pickServer
\* for _, server := range lb.servers { if server.IsAlive() {
LRT_Probe(p) ==
  /\ pc[p] = "lrt_probe"
  /\ IF IsAlive(loc[p].idx)
     THEN Goto(p, "lrt_lock", loc[p], obs[p])
     ELSE LoopNext(p, loc[p], Seen(p, loc[p].idx, Dead))
  /\ UNCHANGED <<config, driver, alive, rrState, wrrState, counters, mutex>>

\* server.AverageResponseTime(): s.mutex.Lock()
LRT_Lock(p) ==
  /\ pc[p] = "lrt_lock"
  /\ mutex[loc[p].idx] = 0
  /\ mutex' = [mutex EXCEPT ![loc[p].idx] = p]
  /\ Goto(p, "lrt_read", loc[p], obs[p])
  /\ UNCHANGED <<config, driver, alive, rrState, wrrState, counters>>

AverageResponseTime_Undivided(s) == totalResponseTime[s]

\* if s.requests == 0 { return 0 }; return s.totalResponseTime / time.Duration(s.requests)
AverageResponseTime(s) ==
  IF requests[s] = 0 THEN 0 ELSE totalResponseTime[s] \div requests[s]

\* the average is computed and the mutex released; if responseTime < minResponseTime {...}
LRT_Read(p) ==
  /\ pc[p] = "lrt_read"
  /\ mutex[loc[p].idx] = p
  /\ mutex' = [mutex EXCEPT ![loc[p].idx] = 0]
  /\ LET s == loc[p].idx
         v == AverageResponseTime(s)
     IN LoopNext(p, Better(loc[p], s, v), Seen(p, s, v))
  /\ UNCHANGED <<config, driver, alive, rrState, wrrState, counters>>

LRT_pickServer(p) == LRT_Probe(p) \/ LRT_Lock(p) \/ LRT_Read(p)

\* -------------------------------------- source IP hash: pickServer
\* serverIndex := int(hashIP(ip)) % len(lb.servers)
SIH_Hash(p) ==
  /\ pc[p] = "sih_hash"
  /\ Goto(p, "sih_probe",
          [loc[p] EXCEPT !.idx = IntModN(hashIP(loc[p].ip), NumServers, intBits)], obs[p])
  /\ UNCHANGED <<config, driver, alive, rrState, wrrState, counters, mutex>>

SIH_Probe_Skipping(p) ==
  /\ pc[p] = "sih_probe"
  /\ LET s == loc[p].idx IN
       IF s \notin Servers
       THEN /\ Ended(p, 0)
            /\ obs' = [obs EXCEPT ![p] = Cleared(@)]
            /\ UNCHANGED <<picks, lastFor>>
       ELSE IF IsAlive(s)
       THEN Return(p, s, loc[p], Seen(p, s, 0))
       ELSE Goto(p, "sih_probe", [loc[p] EXCEPT !.idx = (s + 2) % NumServers],
                 Seen(p, s, Dead))
  /\ UNCHANGED <<config, driver, alive, rrState, wrrState, counters, mutex>>

\* for !lb.servers[serverIndex].IsAlive() { serverIndex = (serverIndex + 1) % len }
\* return lb.servers[serverIndex].  A negative index panics; net/http recovers
\* the panic and drops the connection.
SIH_Probe(p) ==
  /\ pc[p] = "sih_probe"
  /\ LET s == loc[p].idx IN
       IF s \notin Servers
       THEN /\ Ended(p, 0)
            /\ obs' = [obs EXCEPT ![p] = Cleared(@)]
            /\ UNCHANGED <<picks, lastFor>>
       ELSE IF IsAlive(s)
       THEN Return(p, s, loc[p], Seen(p, s, 0))
       ELSE Goto(p, "sih_probe", [loc[p] EXCEPT !.idx = (s + 1) % NumServers],
                 Seen(p, s, Dead))
  /\ UNCHANGED <<config, driver, alive, rrState, wrrState, counters, mutex>>

SIH_pickServer(p) == SIH_Hash(p) \/ SIH_Probe(p)

\* ----------------------------------------------------- serveProxy, Serve
ServeEntry == IF strategy \in Counting THEN "inc_lock" ELSE "forward"

ServeProxy_WrongStatus(p) ==
  /\ pc[p] = "picked"
  /\ IF loc[p].target = Nil
     THEN Ended(p, StatusBadGateway)
     ELSE /\ pc' = [pc EXCEPT ![p] = ServeEntry]
          /\ loc' = loc
  /\ obs' = [obs EXCEPT ![p] = Cleared(@)]
  /\ UNCHANGED <<config, driver, alive, rrState, wrrState, counters, mutex, picks, lastFor>>

\* if targetServer == nil { http.Error(503); return }; targetServer.Serve(rw, req)
ServeProxy(p) ==
  /\ pc[p] = "picked"
  /\ IF loc[p].target = Nil
     THEN Ended(p, StatusServiceUnavailable)
     ELSE /\ pc' = [pc EXCEPT ![p] = ServeEntry]
          /\ loc' = loc
  /\ obs' = [obs EXCEPT ![p] = Cleared(@)]
  /\ UNCHANGED <<config, driver, alive, rrState, wrrState, counters, mutex, picks, lastFor>>

Status(out) ==
  CASE out = "ok" -> StatusOK
    [] out = "fail" -> StatusBadGateway
    [] out = "panic" -> 0

Forward_Retrying(p) ==
  /\ pc[p] = "forward"
  /\ strategy \notin Counting
  /\ \E out \in Outcomes :
       IF out = "fail"
       THEN /\ pc' = [pc EXCEPT ![p] = FirstLabel]
            /\ loc' = [loc EXCEPT ![p] = [InitLoc EXCEPT !.ip = loc[p].ip]]
       ELSE Ended(p, Status(out))
  /\ obs' = [obs EXCEPT ![p].ops.fwd = @ + 1]
  /\ UNCHANGED <<config, driver, alive, rrState, wrrState, counters, mutex, picks, lastFor>>

\* Serve of the programs without counters: s.proxy.ServeHTTP(rw, req)
Forward(p) ==
  /\ pc[p] = "forward"
  /\ strategy \notin Counting
  /\ \E out \in Outcomes : Ended(p, Status(out))
  /\ obs' = [obs EXCEPT ![p].ops.fwd = @ + 1]
  /\ UNCHANGED <<config, driver, alive, rrState, wrrState, counters, mutex, picks, lastFor>>

\* ---------------- Serve of least connections and least response time
\* s.IncrementConnection(): s.mutex.Lock()
IncrementLock(p) ==
  /\ pc[p] = "inc_lock"
  /\ mutex[loc[p].target] = 0
  /\ mutex' = [mutex EXCEPT ![loc[p].target] = p]
  /\ pc' = [pc EXCEPT ![p] = "inc"]
  /\ UNCHANGED <<config, driver, alive, rrState, wrrState, counters, loc, obs, picks, lastFor>>

IncrementConnection_StillLocked(p) ==
  /\ pc[p] = "inc"
  /\ mutex[loc[p].target] = p
  /\ connections' = [connections EXCEPT ![loc[p].target] = @ + 1]
  /\ mutex' = mutex
  /\ pc' = [pc EXCEPT ![p] = "forward"]
  /\ obs' = [obs EXCEPT ![p].ops.inc = @ + 1]
  /\ UNCHANGED <<config, driver, alive, rrState, wrrState, requests, totalResponseTime, loc,
                 picks, lastFor>>

IncrementConnection_Missing(p) ==
  /\ pc[p] = "inc"
  /\ mutex[loc[p].target] = p
  /\ connections' = connections
  /\ mutex' = [mutex EXCEPT ![loc[p].target] = 0]
  /\ pc' = [pc EXCEPT ![p] = "forward"]
  /\ obs' = [obs EXCEPT ![p].ops.inc = @ + 1]
  /\ UNCHANGED <<config, driver, alive, rrState, wrrState, requests, totalResponseTime, loc,
                 picks, lastFor>>

\* s.connections++, s.mutex.Unlock(); defer s.DecrementConnection() is registered
IncrementConnection(p) ==
  /\ pc[p] = "inc"
  /\ mutex[loc[p].target] = p
  /\ connections' = [connections EXCEPT ![loc[p].target] = @ + 1]
  /\ mutex' = [mutex EXCEPT ![loc[p].target] = 0]
  /\ pc' = [pc EXCEPT ![p] = "forward"]
  /\ obs' = [obs EXCEPT ![p].ops.inc = @ + 1]
  /\ UNCHANGED <<config, driver, alive, rrState, wrrState, requests, totalResponseTime, loc,
                 picks, lastFor>>

AfterForward_NoRecord(out) == "dec_lock"

\* where Serve goes on after s.proxy.ServeHTTP: a panic unwinds to the deferred
\* decrement; least response time records the duration first
AfterForward(out) ==
  IF out # "panic" /\ strategy = "LeastResponseTime" THEN "upd_lock" ELSE "dec_lock"

Durations == IF strategy = "LeastResponseTime" THEN 1 .. MaxDuration ELSE {0}

\* start := time.Now(); s.proxy.ServeHTTP(rw, req); duration := time.Since(start)
ForwardCounted(p) ==
  /\ pc[p] = "forward"
  /\ strategy \in Counting
  /\ \E out \in Outcomes, d \in Durations :
       /\ loc' = [loc EXCEPT ![p].outcome = out, ![p].dur = d]
       /\ pc' = [pc EXCEPT ![p] = AfterForward(out)]
  /\ obs' = [obs EXCEPT ![p].ops.fwd = @ + 1]
  /\ UNCHANGED <<config, driver, alive, rrState, wrrState, counters, mutex, picks, lastFor>>

\* s.UpdateResponseTime(duration): s.mutex.Lock()
UpdateLock(p) ==
  /\ pc[p] = "upd_lock"
  /\ mutex[loc[p].target] = 0
  /\ mutex' = [mutex EXCEPT ![loc[p].target] = p]
  /\ pc' = [pc EXCEPT ![p] = "upd"]
  /\ UNCHANGED <<config, driver, alive, rrState, wrrState, counters, loc, obs, picks, lastFor>>

\* s.requests++, s.totalResponseTime += duration, s.mutex.Unlock()
UpdateResponseTime(p) ==
  /\ pc[p] = "upd"
  /\ mutex[loc[p].target] = p
  /\ requests' = [requests EXCEPT ![loc[p].target] = @ + 1]
  /\ totalResponseTime' = [totalResponseTime EXCEPT ![loc[p].target] = @ + loc[p].dur]
  /\ mutex' = [mutex EXCEPT ![loc[p].target] = 0]
  /\ pc' = [pc EXCEPT ![p] = "dec_lock"]
  /\ loc' = [loc EXCEPT ![p].dur = 0]
  /\ obs' = [obs EXCEPT ![p].ops.rec = @ + 1]
  /\ UNCHANGED <<config, driver, alive, rrState, wrrState, connections, picks, lastFor>>

\* the deferred s.DecrementConnection(): s.mutex.Lock()
DecrementLock(p) ==
  /\ pc[p] = "dec_lock"
  /\ mutex[loc[p].target] = 0
  /\ mutex' = [mutex EXCEPT ![loc[p].target] = p]
  /\ pc' = [pc EXCEPT ![p] = "dec"]
  /\ UNCHANGED <<config, driver, alive, rrState, wrrState, counters, loc, obs, picks, lastFor>>

DecrementConnection_NotDeferred(p) ==
  /\ pc[p] = "dec"
  /\ mutex[loc[p].target] = p
  /\ connections' = [connections EXCEPT ![loc[p].target] =
                        IF loc[p].outcome = "panic" THEN @ ELSE @ - 1]
  /\ mutex' = [mutex EXCEPT ![loc[p].target] = 0]
  /\ Ended(p, Status(loc[p].outcome))
  /\ obs' = [obs EXCEPT ![p].ops.dec = @ + 1]
  /\ UNCHANGED <<config, driver, alive, rrState, wrrState, requests, totalResponseTime,
                 picks, lastFor>>

\* s.connections--, s.mutex.Unlock(); Serve returns, or the panic goes on
DecrementConnection(p) ==
  /\ pc[p] = "dec"
  /\ mutex[loc[p].target] = p
  /\ connections' = [connections EXCEPT ![loc[p].target] = @ - 1]
  /\ mutex' = [mutex EXCEPT ![loc[p].target] = 0]
  /\ Ended(p, Status(loc[p].outcome))
  /\ obs' = [obs EXCEPT ![p].ops.dec = @ + 1]
  /\ UNCHANGED <<config, driver, alive, rrState, wrrState, requests, totalResponseTime,
                 picks, lastFor>>

Serve(p) ==
  \/ IncrementLock(p)
  \/ IncrementConnection(p)
  \/ ForwardCounted(p)
  \/ DecrementLock(p)
  \/ DecrementConnection(p)

RecordTime(p) == UpdateLock(p) \/ UpdateResponseTime(p)

Environment == \E s \in Servers, b \in BOOLEAN : SetAlive(s, b)

NextRR ==
  \/ Environment
  \/ \E p \in Procs : Start(p)
  \/ \E p \in Procs : RR_pickServer(p)
  \/ \E p \in Procs : ServeProxy(p)
  \/ \E p \in Procs : Forward(p)

NextWRR ==
  \/ Environment
  \/ \E p \in Procs : Start(p)
  \/ \E p \in Procs : WRR_pickServer(p)
  \/ \E p \in Procs : ServeProxy(p)
  \/ \E p \in Procs : Forward(p)

NextLC ==
  \/ Environment
  \/ \E p \in Procs : Start(p)
  \/ \E p \in Procs : LC_pickServer(p)
  \/ \E p \in Procs : ServeProxy(p)
  \/ \E p \in Procs : Serve(p)

NextLRT ==
  \/ Environment
  \/ \E p \in Procs : Start(p)
  \/ \E p \in Procs : LRT_pickServer(p)
  \/ \E p \in Procs : ServeProxy(p)
  \/ \E p \in Procs : Serve(p)
  \/ \E p \in Procs : RecordTime(p)

NextSIH ==
  \/ Environment
  \/ \E p \in Procs : Start(p)
  \/ \E p \in Procs : SIH_pickServer(p)
  \/ \E p \in Procs : ServeProxy(p)
  \/ \E p \in Procs : Forward(p)

Next ==
  \/ Environment
  \/ \E p \in Procs : Start(p)
  \/ \E p \in Procs : RR_pickServer(p)
  \/ \E p \in Procs : WRR_pickServer(p)
  \/ \E p \in Procs : LC_pickServer(p)
  \/ \E p \in Procs : LRT_pickServer(p)
  \/ \E p \in Procs : SIH_pickServer(p)
  \/ \E p \in Procs : ServeProxy(p)
  \/ \E p \in Procs : Forward(p)
  \/ \E p \in Procs : Serve(p)
  \/ \E p \in Procs : RecordTime(p)

SpecLC == InitWith({"LeastConnections"}, {FALSE}, {"view"}) /\ [][NextLC]_vars
SpecLRT == InitWith({"LeastResponseTime"}, {FALSE}, {}) /\ [][NextLRT]_vars
SpecLRTSerial == InitWith({"LeastResponseTime"}, {TRUE}, {"view"}) /\ [][NextLRT]_vars
SpecSIHSerial == InitWith({"SourceIPHash"}, {TRUE}, {"view", "last", "up"}) /\ [][NextSIH]_vars
NextCounting ==
  \/ Environment
  \/ \E p \in Procs : Start(p)
  \/ \E p \in Procs : LC_pickServer(p)
  \/ \E p \in Procs : LRT_pickServer(p)
  \/ \E p \in Procs : ServeProxy(p)
  \/ \E p \in Procs : Serve(p)
  \/ \E p \in Procs : RecordTime(p)

SpecCounting == InitWith(Counting, {FALSE}, {}) /\ [][NextCounting]_vars
SpecSerial == InitWith(Strategies, {TRUE}, {"picks", "view"}) /\ [][Next]_vars
Spec == InitWith(Strategies, {FALSE}, {}) /\ [][Next]_vars
SpecWRR == InitWith({"WeightedRoundRobin"}, {FALSE}, {"view"}) /\ [][NextWRR]_vars
SpecWRRSerial == InitWith({"WeightedRoundRobin"}, {TRUE}, {"picks", "view"}) /\ [][NextWRR]_vars
SpecRR == InitWith({"RoundRobin"}, {FALSE}, {"up"}) /\ [][NextRR]_vars
SpecRRSerial == InitWith({"RoundRobin"}, {TRUE}, {"picks", "view"}) /\ [][NextRR]_vars

\* the two programs with a cursor, with requests together and one after another
NextCursor ==
  \/ Environment
  \/ \E p \in Procs : Start(p)
  \/ \E p \in Procs : RR_pickServer(p)
  \/ \E p \in Procs : WRR_pickServer(p)
  \/ \E p \in Procs : ServeProxy(p)
  \/ \E p \in Procs : Forward(p)

SpecCursor ==
  InitWith({"RoundRobin", "WeightedRoundRobin"}, BOOLEAN, {}) /\ [][NextCursor]_vars

\* ===================================================================
\* The record store (golang-db): Driver.Insert, Read, ReadAll, Delete
\* ===================================================================
Finished(p, c) ==
  /\ pc' = [pc EXCEPT ![p] = "done"]
  /\ call' = [call EXCEPT ![p] = c]

Step(p, lbl, c) ==
  /\ pc' = [pc EXCEPT ![p] = lbl]
  /\ call' = [call EXCEPT ![p] = c]

\* a goroutine of the program using the Driver makes a call.  Insert and Read
\* return an error at once for an empty resource name; Delete with an empty
\* resource name is the deletion of the whole collection.
Call(p) ==
  /\ pc[p] \in Over
  /\ \A q \in Procs : q < p => q \in InFlight
  /\ \E o \in Operations, c \in Collections, r \in Resources \cup {""}, v \in Records :
       /\ o = "ReadAll" => r = ""
       /\ o # "Insert" => v = 1
       /\ LET k == [InitCall EXCEPT !.op = o, !.collection = c, !.resource = r,
                                    !.v = IF o = "Insert" THEN v ELSE 0]
          IN CASE o \in {"Insert", "Read"} /\ r = "" -> Finished(p, [k EXCEPT !.err = TRUE])
               [] o = "Insert" /\ r # "" -> Step(p, "gm_lock", k)
               [] o = "Delete" -> Step(p, "gm_lock", k)
               [] o = "Read" /\ r # "" -> Step(p, "r_stat", k)
               [] o = "ReadAll" -> Step(p, "ra_stat", k)
  /\ UNCHANGED <<config, balancer, driverMutex, mutexes, locked, dir>>

\* getOrCreateMutex: d.mutex.Lock()
GetMutexLock(p) ==
  /\ pc[p] = "gm_lock"
  /\ driverMutex = 0
  /\ driverMutex' = p
  /\ pc' = [pc EXCEPT ![p] = "gm_get"]
  /\ UNCHANGED <<config, balancer, mutexes, locked, dir, call>>

getOrCreateMutex_AlwaysNew(p) ==
  /\ pc[p] = "gm_get"
  /\ driverMutex = p
  /\ locked' = Append(locked, 0)
  /\ mutexes' = [mutexes EXCEPT ![call[p].collection] = Len(locked) + 1]
  /\ Step(p, "m_lock", [call[p] EXCEPT !.m = Len(locked) + 1])
  /\ driverMutex' = 0
  /\ UNCHANGED <<config, balancer, dir>>

\* m, ok := d.mutexes[collection]; if !ok { m = &sync.Mutex{}; d.mutexes[collection] = m }
\* return m, and the deferred d.mutex.Unlock()
getOrCreateMutex(p) ==
  /\ pc[p] = "gm_get"
  /\ driverMutex = p
  /\ LET c == call[p].collection IN
       IF mutexes[c] = 0
       THEN /\ locked' = Append(locked, 0)
            /\ mutexes' = [mutexes EXCEPT ![c] = Len(locked) + 1]
            /\ Step(p, "m_lock", [call[p] EXCEPT !.m = Len(locked) + 1])
       ELSE /\ UNCHANGED <<locked, mutexes>>
            /\ Step(p, "m_lock", [call[p] EXCEPT !.m = mutexes[c]])
  /\ driverMutex' = 0
  /\ UNCHANGED <<config, balancer, dir>>

\* mutex.Lock() in Insert and Delete
MutexLock(p) ==
  /\ pc[p] = "m_lock"
  /\ locked[call[p].m] = 0
  /\ locked' = [locked EXCEPT ![call[p].m] = p]
  /\ pc' = [pc EXCEPT ![p] = IF call[p].op = "Insert" THEN "i_mkdir" ELSE "d_stat"]
  /\ UNCHANGED <<config, balancer, driverMutex, mutexes, dir, call>>

\* the deferred mutex.Unlock()
MutexUnlock(p) ==
  /\ pc[p] = "m_unlock"
  /\ locked[call[p].m] = p
  /\ locked' = [locked EXCEPT ![call[p].m] = 0]
  /\ pc' = [pc EXCEPT ![p] = "done"]
  /\ UNCHANGED <<config, balancer, driverMutex, mutexes, dir, call>>

GetMutex(p) == GetMutexLock(p) \/ getOrCreateMutex(p) \/ MutexLock(p) \/ MutexUnlock(p)

\* ------------------------------------------------------------ Insert
\* os.MkdirAll(dir, 0755)
Insert_MkdirAll(p) ==
  /\ pc[p] = "i_mkdir"
  /\ dir' = [dir EXCEPT ![call[p].collection].made = TRUE]
  /\ pc' = [pc EXCEPT ![p] = "i_create"]
  /\ UNCHANGED <<config, balancer, driverMutex, mutexes, locked, call>>

\* ioutil.WriteFile(tempPath, b, 0644): the file is created or truncated
Insert_Create(p) ==
  /\ pc[p] = "i_create"
  /\ dir' = [dir EXCEPT ![call[p].collection].file[tempPath(call[p].resource)] = Empty]
  /\ pc' = [pc EXCEPT ![p] = "i_write"]
  /\ UNCHANGED <<config, balancer, driverMutex, mutexes, locked, call>>

\* ... and the JSON text is written to it, a part at a time
Insert_Write(p) ==
  /\ pc[p] = "i_write"
  /\ LET c == call[p].collection
         n == tempPath(call[p].resource)
         k == dir[c].file[n].len + 1
     IN /\ dir' = [dir EXCEPT ![c].file[n] = [val |-> call[p].v, len |-> k]]
        /\ pc' = [pc EXCEPT ![p] = IF k = MaxChunks THEN "i_rename" ELSE "i_write"]
  /\ UNCHANGED <<config, balancer, driverMutex, mutexes, locked, call>>

\* os.Rename(tempPath, finalPath)
Insert_Rename(p) ==
  /\ pc[p] = "i_rename"
  /\ LET c == call[p].collection
         r == call[p].resource
     IN dir' = [dir EXCEPT ![c].file[finalPath(r)] = dir[c].file[tempPath(r)],
                           ![c].file[tempPath(r)] = Missing]
  /\ pc' = [pc EXCEPT ![p] = "m_unlock"]
  /\ UNCHANGED <<config, balancer, driverMutex, mutexes, locked, call>>

Insert(p) ==
  \/ Insert_MkdirAll(p)
  \/ Insert_Create(p)
  \/ Insert_Write(p)
  \/ Insert_Rename(p)

\* ------------------------------------------------------------ Delete
\* stat(dir) of d.dir/collection/resource: the path itself, else the path + ".json"
Delete_Stat(p) ==
  /\ pc[p] = "d_stat"
  /\ LET c == call[p].collection
         r == call[p].resource
         found == IF r = "" THEN dir[c].made ELSE dir[c].file[finalPath(r)] # Missing
     IN IF found
        THEN Step(p, "d_remove", call[p])
        ELSE Step(p, "m_unlock", [call[p] EXCEPT !.err = TRUE])
  /\ UNCHANGED <<config, balancer, driverMutex, mutexes, locked, dir>>

\* os.RemoveAll(dir) of the collection directory, or os.RemoveAll(dir + ".json")
Delete_RemoveAll(p) ==
  /\ pc[p] = "d_remove"
  /\ LET c == call[p].collection
         r == call[p].resource
     IN dir' = IF r = "" THEN [dir EXCEPT ![c] = NoDir]
               ELSE [dir EXCEPT ![c].file[finalPath(r)] = Missing]
  /\ pc' = [pc EXCEPT ![p] = "m_unlock"]
  /\ UNCHANGED <<config, balancer, driverMutex, mutexes, locked, call>>

Delete(p) == Delete_Stat(p) \/ Delete_RemoveAll(p)

\* -------------------------------------------------------------- Read
\* stat(record) of d.dir/collection/resource.json
Read_Stat(p) ==
  /\ pc[p] = "r_stat"
  /\ IF dir[call[p].collection].file[finalPath(call[p].resource)] # Missing
     THEN Step(p, "r_read", call[p])
     ELSE Finished(p, [call[p] EXCEPT !.err = TRUE])
  /\ UNCHANGED <<config, balancer, driverMutex, mutexes, locked, dir>>

\* what ioutil.ReadFile returns for the file named n of collection c
Got(c, n) == [name |-> n, text |-> dir[c].file[n]]

\* b, err := ioutil.ReadFile(record); json.Unmarshal(b, &v)
Read_ReadFile(p) ==
  /\ pc[p] = "r_read"
  /\ LET c == call[p].collection
         n == finalPath(call[p].resource)
     IN IF dir[c].file[n] = Missing
        THEN Finished(p, [call[p] EXCEPT !.err = TRUE])
        ELSE Finished(p, [call[p] EXCEPT !.records = <<Got(c, n)>>,
                                         !.err = dir[c].file[n].len # MaxChunks])
  /\ UNCHANGED <<config, balancer, driverMutex, mutexes, locked, dir>>

Read(p) == Read_Stat(p) \/ Read_ReadFile(p)

\* ----------------------------------------------------------- ReadAll
\* stat(dir) of the collection directory
ReadAll_Stat(p) ==
  /\ pc[p] = "ra_stat"
  /\ IF dir[call[p].collection].made
     THEN Step(p, "ra_list", call[p])
     ELSE Finished(p, [call[p] EXCEPT !.err = TRUE])
  /\ UNCHANGED <<config, balancer, driverMutex, mutexes, locked, dir>>

\* files, _ := ioutil.ReadDir(dir): every file of the directory, whatever its name
ReadAll_ReadDir(p) ==
  /\ pc[p] = "ra_list"
  /\ LET c == call[p].collection
         there(n) == dir[c].file[n] # Missing
     IN Step(p, "ra_read", [call[p] EXCEPT !.files = SelectSeq(SortedNames, there)])
  /\ UNCHANGED <<config, balancer, driverMutex, mutexes, locked, dir>>

\* for _, file := range files { b, err := ioutil.ReadFile(...); if err != nil
\* { return nil, err }; records = append(records, string(b)) }; return records, nil
ReadAll_ReadFile(p) ==
  /\ pc[p] = "ra_read"
  /\ LET c == call[p].collection
         k == call[p]
     IN IF k.files = <<>>
        THEN Finished(p, k)
        ELSE IF dir[c].file[Head(k.files)] = Missing
        THEN Finished(p, [k EXCEPT !.files = <<>>, !.records = <<>>, !.err = TRUE])
        ELSE Step(p, "ra_read", [k EXCEPT !.files = Tail(@),
                                          !.records = Append(@, Got(c, Head(k.files)))])
  /\ UNCHANGED <<config, balancer, driverMutex, mutexes, locked, dir>>

ReadAll(p) == ReadAll_Stat(p) \/ ReadAll_ReadDir(p) \/ ReadAll_ReadFile(p)

NextStore ==
  \/ \E p \in Procs : Call(p)
  \/ \E p \in Procs : GetMutex(p)
  \/ \E p \in Procs : Insert(p)
  \/ \E p \in Procs : Delete(p)
  \/ \E p \in Procs : Read(p)
  \/ \E p \in Procs : ReadAll(p)

SpecStore == InitWith({"RecordStore"}, {FALSE}, {}) /\ [][NextStore]_vars

\* ===================================================================
\* Properties
\* ===================================================================
AllAlive == \A s \in Servers : alive[s]
NoneAlive == \A s \in Servers : ~alive[s]

\* the windows of n consecutive picks of the log, by their first position
Windows(n) == {i \in 1 .. Len(picks) : i + n - 1 <= Len(picks)}

CountIn(i, n, s) == Cardinality({j \in i .. (i + n - 1) : picks[j].srv = s})

\* C1: round robin over a pool whose backends are all alive: any NumServers
\* consecutive picks return pairwise distinct backends, whatever the cursor
\* was at the first of them.
C1_VisitsAllBeforeRepeating ==
  (strategy = "RoundRobin" /\ AllAlive) =>
    \A i \in Windows(NumServers) :
      \A j, k \in i .. (i + NumServers - 1) :
        /\ picks[j].srv \in Servers
        /\ (j # k => picks[j].srv # picks[k].srv)

C1_Witness ==
  /\ strategy = "RoundRobin" /\ AllAlive
  /\ \E i \in Windows(NumServers) : i > 1 /\ picks[i].start = NumServers - 1

\* C2: weighted round robin with weights 5, 3, 1 and all backends alive: every
\* window of 9 consecutive picks holds each backend as often as its weight
\* says (5, 3 and 1 times), and no 5 consecutive picks are all the weight-5
\* backend.
SumWeights == SumOver([s \in Servers |-> Weight(s)], Servers)

C2_WeightedShares ==
  (strategy = "WeightedRoundRobin" /\ AllAlive) =>
    /\ \A i \in Windows(SumWeights) :
         \A s \in Servers : CountIn(i, SumWeights, s) = Weight(s)
    /\ \A i \in Windows(maxWeight) : CountIn(i, maxWeight, 0) < maxWeight

C2_Witness ==
  /\ strategy = "WeightedRoundRobin" /\ AllAlive
  /\ Windows(SumWeights) # {}
  /\ picks[1].srv = 1
  /\ ServerWeights = <<5, 3, 1>>

\* the first alive backend at or after position c, in cyclic order
RECURSIVE FirstAliveFrom(_, _)
FirstAliveFrom(c, n) ==
  IF n = 0 THEN Nil
  ELSE IF alive[c] THEN c
  ELSE FirstAliveFrom((c + 1) % NumServers, n - 1)

\* C7: round robin while liveness does not change: a pick returns the first
\* alive backend in cyclic order from the cursor and leaves the cursor just
\* after it; with A, B alive and C dead and the cursor at A, three consecutive
\* picks return A, B, A.
C7_SkipsDeadKeepsRotating ==
  strategy = "RoundRobin" =>
    /\ \A i \in 1 .. Len(picks) :
         /\ picks[i].srv = FirstAliveFrom(picks[i].start, NumServers)
         /\ (picks[i].srv # Nil /\ i < Len(picks)) =>
              picks[i + 1].start = (picks[i].srv + 1) % NumServers
         /\ (picks[i].srv # Nil /\ i = Len(picks) /\ pc[1] \in {"picked", "forward", "done"}) =>
              roundRobinIndex = (picks[i].srv + 1) % NumServers
    /\ (alive = [s \in Servers |-> s # 2]) =>
         \A i \in Windows(3) :
           picks[i].start = 0 =>
             <<picks[i].srv, picks[i + 1].srv, picks[i + 2].srv>> = <<0, 1, 0>>

C7_Witness ==
  /\ strategy = "RoundRobin"
  /\ alive = [s \in Servers |-> s # 2]
  /\ Len(picks) >= 3
  /\ picks[1].start = 0
  /\ <<picks[1].srv, picks[2].srv, picks[3].srv>> = <<0, 1, 0>>
  /\ picks[3].start = 2

\* C3 as stated: at the instant a least-connections pick returns a backend,
\* no alive backend has fewer active connections than the returned one.
C3_LeastAtReturn ==
  [][\A p \in Procs :
       (pc[p] \in {"lc_probe", "lc_read"} /\ pc'[p] = "picked" /\ loc'[p].target # Nil) =>
         \A s \in Servers :
           alive'[s] => connections'[loc'[p].target] <= connections'[s]]_vars

\* C3 (amended): a least-connections pick returns a backend whose count, as
\* the pick read it during its scan, is no larger than the count the same pick
\* read for any other backend it found alive; it returns none exactly when it
\* found every backend dead.
C3_LeastAmongRead ==
  \A p \in Procs :
    (strategy = "LeastConnections" /\ pc[p] = "picked") =>
      LET v == obs[p].view
          t == loc[p].target
      IN /\ (t = Nil) <=> (\A s \in Servers : v[s] = Dead)
         /\ t # Nil => (v[t] >= 0 /\ \A s \in Servers : v[s] >= 0 => v[t] <= v[s])

C3_Witness ==
  \E p \in Procs :
    /\ strategy = "LeastConnections" /\ pc[p] = "picked" /\ loc[p].target # Nil
    /\ \E s \in Servers :
         /\ obs[p].view[s] > obs[p].view[loc[p].target]
         /\ alive[s]
         /\ connections[s] < connections[loc[p].target]

\* the start index of a client address, and the backends probed before b
Home(ip) == IntModN(hashIP(ip), NumServers, intBits)

Before(h, b) == {s \in Servers : (s - h) % NumServers < (b - h) % NumServers}

\* C4 as stated: once a pick for a client address has returned backend B, a
\* later pick for the same address during which B is alive returns B.
C4_SameBackendWhileAlive ==
  \A p \in Procs :
    (strategy = "SourceIPHash" /\ pc[p] = "picked"
       /\ obs[p].prev # Nil /\ obs[p].prev \in obs[p].upAll) =>
      loc[p].target = obs[p].prev

\* C4 (amended): ... returns B provided that every backend probed before B,
\* from the address's start index, is found dead in that pick.
C4_SameBackendWhileEarlierStayDead ==
  \A p \in Procs :
    (strategy = "SourceIPHash" /\ pc[p] = "picked"
       /\ obs[p].prev # Nil /\ obs[p].prev \in obs[p].upAll
       /\ \A s \in Before(Home(loc[p].ip), obs[p].prev) : obs[p].view[s] = Dead) =>
      loc[p].target = obs[p].prev

C4_Witness ==
  \E p \in Procs :
    /\ strategy = "SourceIPHash" /\ pc[p] = "picked"
    /\ obs[p].prev # Nil /\ obs[p].prev \in obs[p].upAll
    /\ obs[p].prev # Home(loc[p].ip)
    /\ \A s \in Before(Home(loc[p].ip), obs[p].prev) : obs[p].view[s] = Dead
    /\ loc[p].target = obs[p].prev

ProbeLabels == {"rr_probe", "w_probe", "lc_probe", "lrt_probe", "sih_probe"}

\* C5: a pick in which every backend has failed its probe returns none (and
\* the request is answered 503): it does not go on to probe a backend again.
C5_AllDeadMeansNone ==
  \A p \in Procs :
    (\A s \in Servers : obs[p].view[s] = Dead) =>
      /\ pc[p] \notin ProbeLabels
      /\ pc[p] = "picked" => loc[p].target = Nil

Zero == [inc |-> 0, fwd |-> 0, rec |-> 0, dec |-> 0]

\* C6: a request that was handed a backend increments and decrements that
\* backend's connection count exactly once each, whether the forward
\* succeeded, failed or panicked; with no request in flight every count is
\* back at its value before the burst (zero).
C6_NoLeakedConnections ==
  /\ \A p \in Procs :
       (pc[p] \in {"done", "aborted"} /\ loc[p].target # Nil) =>
         (obs[p].ops.inc = 1 /\ obs[p].ops.fwd = 1 /\ obs[p].ops.dec = 1)
  /\ InFlight = {} => \A s \in Servers : connections[s] = 0

C6_Witness ==
  /\ InFlight = {}
  /\ \E p, q \in Procs :
       /\ pc[p] = "aborted" /\ loc[p].target # Nil /\ obs[p].ops.dec = 1
       /\ pc[q] = "done" /\ loc[q].resp = StatusBadGateway /\ loc[q].target = loc[p].target

\* C8: no backend's connection count is ever negative.
C8_ConnectionsNonNegative == \A s \in Servers : connections[s] >= 0

C8_Witness ==
  \E p, q \in Procs :
    /\ pc[p] = "done" /\ loc[p].resp = StatusBadGateway /\ obs[p].ops.dec = 1
    /\ pc[q] = "forward" /\ loc[q].target = loc[p].target
    /\ connections[loc[q].target] = 1

\* C9: a request whose pick returned none is answered 503 and has touched no
\* backend: it forwarded nothing and changed no connection count, request
\* count or response-time total; 503 is given to no other request.
C9_NoneMeans503Untouched ==
  \A p \in Procs :
    /\ (pc[p] = "done" /\ loc[p].target = Nil) =>
         (loc[p].resp = StatusServiceUnavailable /\ obs[p].ops = Zero)
    /\ (pc[p] = "picked" /\ loc[p].target = Nil) => obs[p].ops = Zero
    /\ loc[p].resp = StatusServiceUnavailable => (pc[p] = "done" /\ loc[p].target = Nil)

C9_Witness ==
  \E p, q \in Procs :
    /\ pc[p] = "done" /\ loc[p].target = Nil /\ loc[p].resp = StatusServiceUnavailable
    /\ pc[q] = "forward" /\ connections[loc[q].target] = 1

\* C10: a pick returns none only if no backend was alive during the whole pick.
C10_NoneOnlyWhenNoneAlive ==
  \A p \in Procs :
    (pc[p] = "picked" /\ loc[p].target = Nil) => obs[p].upAll = {}

\* a request is inside the part of pickServer that reads and writes the strategy
\* state: from its first access of the cursor or counters to its return
InsidePick ==
  {"rr_fetch", "rr_load", "rr_store", "rr_probe", "rr_check",
   "w_adv_store", "w_wrapped", "w_dec_load", "w_dec_store", "w_nonpos", "w_reset",
   "w_zero", "w_cmp", "w_cmp_weight", "w_probe_load", "w_probe", "w_ret"}

\* C11: the round-robin cursor and the weighted-round-robin counters are
\* guarded by one lock: no two requests are between their first access of that
\* state and their return from the pick at the same time.
C11_PicksDoNotInterleave ==
  strategy \in {"RoundRobin", "WeightedRoundRobin"} =>
    Cardinality({p \in Procs : pc[p] \in InsidePick}) <= 1

\* C12: a request holds a backend's mutex only inside the counter methods
\* (Connections, AverageResponseTime, IncrementConnection, UpdateResponseTime,
\* DecrementConnection), never while it forwards, so the mutex of a backend
\* with a forward in progress is free or held by a request that is not forwarding.
C12_NoLockAcrossForward ==
  \A s \in Servers :
    mutex[s] # 0 =>
      /\ pc[mutex[s]] \in {"lc_read", "lrt_read", "inc", "upd", "dec"}
      /\ pc[mutex[s]] \in {"lc_read", "lrt_read"} => loc[mutex[s]].idx = s
      /\ pc[mutex[s]] \in {"inc", "upd", "dec"} => loc[mutex[s]].target = s

C12_Witness ==
  \E p, q \in Procs :
    /\ pc[p] = "forward" /\ strategy \in Counting
    /\ mutex[loc[p].target] = q
    /\ pc[q] \in {"inc", "dec", "lc_read", "lrt_read"}

PickLabels ==
  InsidePick \cup {"rr_start", "w_adv_load", "lc_probe", "lc_lock", "lc_read",
                   "lrt_probe", "lrt_lock", "lrt_read", "sih_hash", "sih_probe"}

\* C13: a request is forwarded at most once: while it is in pickServer it has
\* forwarded nothing, and once its forward has been made (also one answered
\* 502) it never is in pickServer or at the forward again.
C13_ForwardedAtMostOnce ==
  \A p \in Procs :
    /\ obs[p].ops.fwd <= 1
    /\ pc[p] \in PickLabels \cup {"picked", "inc_lock", "inc", "forward"} =>
         obs[p].ops.fwd = 0
    /\ (pc[p] \in {"done", "aborted"} /\ loc[p].target \in Servers) => obs[p].ops.fwd = 1

C13_Witness ==
  \E p \in Procs :
    /\ pc[p] = "done" /\ loc[p].resp = StatusBadGateway
    /\ obs[p].ops.fwd = 1
    /\ \E s \in Servers : s # loc[p].target /\ alive[s]

Ops(i, f, r, d) == [inc |-> i, fwd |-> f, rec |-> r, dec |-> d]

\* C14 as stated: every least-response-time request that was handed a backend
\* makes all four steps: increment, forward, record, decrement.
C14_AllFourSteps ==
  \A p \in Procs :
    (strategy = "LeastResponseTime" /\ pc[p] \in {"done", "aborted"}
       /\ loc[p].target \in Servers) =>
      obs[p].ops = Ops(1, 1, 1, 1)

\* the steps a request has made, by its position in Serve
C14_Order ==
  \A p \in Procs :
    strategy = "LeastResponseTime" =>
      LET o == obs[p].ops IN
        /\ pc[p] \in {"inc_lock", "inc"} => o = Zero
        /\ pc[p] = "forward" => o = Ops(1, 0, 0, 0)
        /\ pc[p] \in {"upd_lock", "upd"} =>
             (o = Ops(1, 1, 0, 0) /\ loc[p].outcome # "panic")
        /\ pc[p] \in {"dec_lock", "dec"} =>
             o = Ops(1, 1, IF loc[p].outcome = "panic" THEN 0 ELSE 1, 0)
        /\ (pc[p] = "done" /\ loc[p].target \in Servers) => o = Ops(1, 1, 1, 1)
        /\ (pc[p] = "aborted" /\ loc[p].target \in Servers) => o = Ops(1, 1, 0, 1)

\* the record step, and only it, changes requests and totalResponseTime: by one
\* and by the measured duration, on the request's backend
C14_Record ==
  (requests' # requests \/ totalResponseTime' # totalResponseTime) =>
    \E p \in Procs :
      /\ pc[p] = "upd" /\ pc'[p] = "dec_lock"
      /\ obs'[p].ops = Ops(1, 1, 1, 0)
      /\ requests' = [requests EXCEPT ![loc[p].target] = @ + 1]
      /\ totalResponseTime' = [totalResponseTime EXCEPT ![loc[p].target] = @ + loc[p].dur]
      /\ loc[p].dur \in 1 .. MaxDuration

\* C14 (amended): a least-response-time request that was handed a backend
\* increments, then forwards, then records (requests + 1, total + elapsed), then
\* decrements; the record is made exactly when the forward returns, with
\* success or 502, and is skipped when the forward panics, after which the
\* decrement still runs.
C14_OrderedRecordOnReturn == []C14_Order /\ [][C14_Record]_vars

C14_Witness ==
  \E p, q \in Procs :
    /\ strategy = "LeastResponseTime"
    /\ pc[p] = "done" /\ obs[p].ops = Ops(1, 1, 1, 1) /\ loc[p].resp = StatusBadGateway
    /\ totalResponseTime[loc[p].target] = MaxDuration /\ requests[loc[p].target] = 1
    /\ pc[q] = "aborted" /\ obs[q].ops = Ops(1, 1, 0, 1)

\* C15: the backend a weighted-round-robin pick returns is one whose probe
\* succeeded in this pick and whose weight is at least currentWeight when the
\* pick returns it, whatever other picks do meanwhile.
C15_ReturnedWasAccepted ==
  [][\A p \in Procs :
       (strategy = "WeightedRoundRobin" /\ pc[p] = "w_ret" /\ pc'[p] = "picked") =>
         /\ loc'[p].target \in Servers
         /\ obs[p].view[loc'[p].target] = 0
         /\ Weight(loc'[p].target) >= currentWeight]_vars

\* C16: weighted round robin with no backend alive: the weight the pick
\* resets currentWeight to is zero, and the pick then returns none.
C16_NoneAliveMeansNone ==
  [][\A p \in Procs :
       (strategy = "WeightedRoundRobin" /\ NoneAlive) =>
         /\ (pc[p] = "w_reset" /\ pc'[p] = "w_zero") => currentWeight' = 0
         /\ (pc[p] = "w_zero" /\ pc'[p] # "w_zero") =>
              (pc'[p] = "picked" /\ loc'[p].target = Nil)]_vars

\* C17: a source-IP-hash pick makes at most NumServers probes: whenever it is
\* about to probe, some backend has not been probed by it yet.
C17_AtMostPoolSizeProbes ==
  \A p \in Procs :
    (strategy = "SourceIPHash" /\ pc[p] = "sih_probe" /\ loc[p].idx \in Servers) =>
      \E s \in Servers : obs[p].view[s] = Unprobed

\* C18: least connections returns the first backend in pool order among those
\* for which the pick read the smallest count: every other backend it found
\* alive had a larger count, or the same count and a later position.
C18_FirstOfTheLeast ==
  \A p \in Procs :
    (strategy = "LeastConnections" /\ pc[p] = "picked" /\ loc[p].target # Nil) =>
      LET v == obs[p].view
          t == loc[p].target
      IN \A s \in Servers :
           (v[s] >= 0 /\ s # t) => (v[t] < v[s] \/ (v[t] = v[s] /\ t < s))

C18_Witness ==
  \E p \in Procs :
    /\ strategy = "LeastConnections" /\ pc[p] = "picked" /\ loc[p].target = 1
    /\ obs[p].view = [s \in Servers |-> IF s = 0 THEN 1 ELSE 0]

\* C19: least response time, requests one after another: the averages the
\* pick compares are total / requests (whole nanoseconds) and 0 for a backend
\* without recorded requests, and the pick returns the first backend in pool
\* order among the alive ones with the smallest average; so a backend without
\* records is preferred to every backend with a positive average.
C19_SmallestAverage ==
  \A p \in Procs :
    (strategy = "LeastResponseTime" /\ pc[p] = "picked") =>
      LET v == obs[p].view
          t == loc[p].target
      IN /\ \A s \in Servers :
              v[s] >= 0 =>
                /\ requests[s] = 0 => v[s] = 0
                /\ requests[s] > 0 =>
                     /\ v[s] * requests[s] <= totalResponseTime[s]
                     /\ totalResponseTime[s] < (v[s] + 1) * requests[s]
         /\ (t = Nil) <=> (\A s \in Servers : v[s] = Dead)
         /\ t # Nil =>
              /\ v[t] >= 0
              /\ \A s \in Servers :
                   (v[s] >= 0 /\ s # t) => (v[t] < v[s] \/ (v[t] = v[s] /\ t < s))
              /\ (\E s \in Servers : v[s] >= 0 /\ requests[s] = 0) => requests[t] = 0

C19_Witness ==
  \E p \in Procs :
    /\ strategy = "LeastResponseTime" /\ pc[p] = "picked" /\ loc[p].target = 1
    /\ obs[p].view = [s \in Servers |-> IF s = 0 THEN 2 ELSE IF s = 1 THEN 1 ELSE Dead]
    /\ requests = [s \in Servers |-> IF s = 2 THEN 0 ELSE 1]

\* C20: within one pick no backend is probed twice: the backend a pick is
\* about to probe has not been probed by this pick before.
C20_ProbedAtMostOnce ==
  \A p \in Procs :
    (pc[p] \in ProbeLabels /\ loc[p].idx \in Servers) =>
      obs[p].view[loc[p].idx] = Unprobed

\* C21: the backend a pick returns is one that this pick probed and found
\* alive (in the runs that record what each pick observed).
C21_ReturnedWasProbedAlive ==
  \A p \in Procs :
    ("view" \in watching /\ pc[p] = "picked" /\ loc[p].target \in Servers) =>
      obs[p].view[loc[p].target] \notin {Unprobed, Dead}

\* C24: the round-robin cursor and currentServer are pool indices in every
\* state, as is every index a pick has fetched; and with requests one after
\* another, a weighted-round-robin pick that returned a backend leaves
\* currentWeight in 0 .. maxWeight.
C24_CursorsInRange ==
  /\ roundRobinIndex \in Servers
  /\ currentServer \in Servers
  /\ \A p \in Procs :
       /\ pc[p] \in InsidePick => loc[p].idx \in Servers
       /\ (serial /\ strategy = "WeightedRoundRobin" /\ pc[p] = "picked"
             /\ loc[p].target \in Servers) =>
            currentWeight \in 0 .. maxWeight

C24_Witness ==
  /\ ~serial /\ strategy = "WeightedRoundRobin"
  /\ \A p \in Procs : pc[p] \in InsidePick
  /\ currentWeight = -MaxDebt
  /\ currentServer = NumServers - 1

\* C25: the start index of a source-IP-hash pick, int(hashIP(ip)) % len, is a
\* pool index, for 32-bit and for 64-bit int.
C25_StartIndexInRange ==
  \A p \in Procs :
    (strategy = "SourceIPHash" /\ pc[p] = "sih_probe") =>
      loc[p].idx \in Servers

\* C22: every record a Read or ReadAll has returned is the whole text of a
\* record, read from a file named resource.json that an Insert had renamed into
\* place: never a part of a record and never the Insert's temporary file.
C22_OnlyFinishedRecords ==
  \A p \in Procs :
    \A i \in 1 .. Len(call[p].records) :
      LET rec == call[p].records[i] IN
        /\ rec.name[2] = ".json"
        /\ rec.text.val \in Records
        /\ rec.text.len = MaxChunks

\* the part of Insert and Delete between mutex.Lock() and the deferred Unlock
FileSection == {"i_mkdir", "i_create", "i_write", "i_rename", "d_stat", "d_remove", "m_unlock"}

\* C23: a collection never has more than one mutex and every Insert and Delete
\* on it uses that one; two callers are never inside the file-system section
\* for the same collection at once; a caller waiting for a collection's mutex
\* waits for an operation on that same collection, and d.mutex is held only
\* for the map lookup.
C23_OneMutexPerCollection ==
  /\ Len(locked) <= Cardinality(Collections)
  /\ \A c, e \in Collections : (c # e /\ mutexes[c] # 0) => mutexes[c] # mutexes[e]
  /\ driverMutex # 0 => pc[driverMutex] = "gm_get"
  /\ \A p \in Procs :
       /\ pc[p] \in FileSection \cup {"m_lock"} =>
            (call[p].m # 0 /\ call[p].m = mutexes[call[p].collection])
       /\ pc[p] \in FileSection => locked[call[p].m] = p
       /\ (pc[p] = "m_lock" /\ locked[call[p].m] # 0) =>
            \E q \in Procs :
              q # p /\ pc[q] \in FileSection /\ call[q].collection = call[p].collection
  /\ \A p, q \in Procs :
       (p # q /\ pc[p] \in FileSection /\ pc[q] \in FileSection) =>
         call[p].collection # call[q].collection

C23_Witness ==
  \E p, q \in Procs :
    /\ pc[p] = "i_write" /\ pc[q] = "d_remove"
    /\ call[p].collection # call[q].collection
    /\ dir[call[p].collection].file[tempPath(call[p].resource)].len = 1
    /\ Len(locked) = 2

====
